---- MODULE Spec2Model ----
(***************************************************************************)
(* Model of the recommendation core of InfoSynapse                         *)
(* (src/utils/recommend.py): the weighted sampler                          *)
(* weighted_sample_without_replacement, its caller recommend_random_repos, *)
(* the ranking of get_combined_recommendations with its two normalizers,   *)
(* and recommend_careers_by_interests_and_location.                        *)
(*                                                                         *)
(* Python lists are objects: a list is modelled as an entry of `heap`,     *)
(* and a local name (pool, w, the returned list) as a reference to an      *)
(* entry, so that list.copy() and in-place pop / shuffle keep their        *)
(* meaning.  The items of the sampler are identified by their position in  *)
(* the caller's list.  Random draws are choices with \E.                   *)
(***************************************************************************)
EXTENDS Integers, Sequences, FiniteSets, TLC

VARIABLES
    heap,        \* the list objects: items, weights, pool, w, selected, ret
    poolRef,     \* the list object the local name `pool` refers to
    wRef,        \* the list object the local name `w` refers to
    resultRef,   \* the list object the sampler returned ("none" before)
    k,           \* argument k of the sampler
    remaining,   \* iterations of `for _ in range(min(k, len(pool)))` left
    pc,          \* position of the sampler call
    branch,      \* the branch the sampler took last
    lastDraw,    \* the last weighted draw: threshold, pool and w before it
    raised,      \* TRUE once the call ended by an exception
    items0,      \* the caller's items list when the call started
    weights0,    \* the caller's weights list when the call started
    caller,      \* who called the sampler
    session,     \* st.session_state: github_repos, github_topics_used, ...
    cands,       \* the local list `candidates` of recommend_random_repos
    fetched_cands,  \* `candidates` as the fetches of the last call left it
    rpc,         \* position of the recommend_random_repos call
    out,         \* what recommend_random_repos returned last
    kb,          \* get_combined_recommendations: argument kb
    kb_cands,    \* get_combined_recommendations: the knowledge-base candidates
    interests,   \* get_combined_recommendations: argument interests
    max_items,   \* get_combined_recommendations: argument max_items
    all_cands,   \* get_combined_recommendations: kb_cands + gh_cands
    scored,      \* get_combined_recommendations: the list `scored`, as built
    ranked,      \* get_combined_recommendations: what it returned
    gpc,         \* position of the get_combined_recommendations call
    career_config,     \* CAREER_CONFIG, the table of career profiles in force
    career_interests,  \* recommend_careers_...: interests (stripped at entry)
    location,          \* recommend_careers_...: location (normalized at entry)
    prioritize_national_strategic,  \* recommend_careers_...: the flag
    cidx,        \* recommend_careers_...: the profile the first loop is at
    results,     \* recommend_careers_...: the local list `results`
    admitted,    \* the profiles (table positions) the strict pass admitted
    strict,      \* `results` as the strict pass left it (line 614)
    took_backfill,  \* TRUE once the branch of line 615 was entered
    backfilled,  \* the entries the backfill branch appended
    careers,     \* what recommend_careers_... returned
    cpc,         \* position of the recommend_careers_... call
    other        \* the frame of a second recommend_careers_... call

samplerVars == <<heap, poolRef, wRef, resultRef, k, remaining, pc, branch,
                 lastDraw, raised, items0, weights0, caller>>

reposVars == <<session, cands, fetched_cands, rpc, out>>

rankVars == <<kb, kb_cands, interests, max_items, all_cands, scored, ranked, gpc>>

careerVars == <<career_config, career_interests, location,
                prioritize_national_strategic, cidx, results, admitted, strict,
                took_backfill, backfilled, careers, cpc, other>>

vars == <<samplerVars, reposVars, rankVars, careerVars>>

---------------------------------------------------------------------------
(* Bounds and input sets. *)

\* longest items / weights list handed to the sampler
MaxLen == 3

\* the weights a direct call of the sampler may be given
WeightChoices == {0, 1, 2}

NoDraw == [r2 |-> -1, pool |-> <<>>, w |-> <<>>, idx |-> 0]

---------------------------------------------------------------------------
(* Helpers for Python's built-ins. *)

Min(a, b) == IF a <= b THEN a ELSE b

Max(a, b) == IF a >= b THEN a ELSE b

Minimum(S) == CHOOSE x \in S : \A y \in S : x <= y

Range(s) == {s[i] : i \in DOMAIN s}

SeqsUpTo(S, n) == UNION {[1..m -> S] : m \in 0..n}

\* sum(w)
RECURSIVE Total(_)
Total(w) == IF w = <<>> THEN 0 ELSE Head(w) + Total(Tail(w))

\* the running value of `cum` after i items of w
Cum(w, i) == Total(SubSeq(w, 1, i))

\* list.pop(idx), idx counted from 1
PopAt(s, idx) == SubSeq(s, 1, idx - 1) \o SubSeq(s, idx + 1, Len(s))

\* s[:m]
SlicePrefix(s, m) ==
    IF m >= 0 THEN SubSeq(s, 1, Min(m, Len(s)))
    ELSE SubSeq(s, 1, Max(Len(s) + m, 0))

\* every order random.shuffle can leave a list in
Shuffles(s) ==
    LET n == Len(s)
        perms == {p \in [1..n -> 1..n] : \A i, j \in 1..n : p[i] = p[j] => i = j}
    IN {[i \in 1..n |-> s[p[i]]] : p \in perms}

\* list.copy(): the result is the fresh list object, never the source
ListAlias(src, fresh) == src

ListCopy(src, fresh) == fresh

---------------------------------------------------------------------------
(* weighted_sample_without_replacement *)

\* `if not items or k <= 0`
EarlyEmpty(items, kk) == items = <<>> \/ kk <= 0

\* `return []`
EarlyResultItems(items) == items

EarlyResult(items) == <<>>

\* the number of iterations of `for _ in range(n)`
RangeLen(n) == Max(n, 0)

\* range(min(k, len(pool)))
LoopCountNoCap(kk, pool) == RangeLen(Len(pool))

LoopCount(kk, pool) == RangeLen(Min(kk, Len(pool)))

\* pool[: (k - len(selected))]
FallbackTakeAll(pool, kk, selected) == SlicePrefix(pool, kk)

FallbackTake(pool, kk, selected) == SlicePrefix(pool, kk - Len(selected))

\* r = random.random() * total lies in [0, total).  Thresholds are counted in
\* halves (r = r2 / 2).  The walk only compares r with the partial sums of w,
\* so one threshold on every partial sum and one strictly between each two
\* consecutive partial sums stand for every r of the interval.
Thresholds(w) ==
    {r2 \in {2 * Cum(w, i) + d : i \in 0..Len(w), d \in {0, 1}} :
        r2 < 2 * Total(w)}

\* the walk over the cumulative weights: the first i with r <= cum, or the
\* last index when there is none
WalkIdxStrict(w, r2) ==
    LET hits == {i \in 1..Len(w) : r2 < 2 * Cum(w, i)}
    IN IF hits # {} THEN Minimum(hits) ELSE Len(w)

WalkIdxLast(w, r2) == Len(w)

WalkIdx(w, r2) ==
    LET hits == {i \in 1..Len(w) : r2 <= 2 * Cum(w, i)}
    IN IF hits # {} THEN Minimum(hits) ELSE Len(w)

\* pool.pop(idx) and w.pop(idx) after the append
AfterPopKeep(s, idx) == s

AfterPop(s, idx) == PopAt(s, idx)

\* lines 293-299: the two early returns, else the private copies
SampleEntry ==
    /\ pc = "entry"
    /\ IF EarlyEmpty(heap["items"], k)
       THEN /\ heap' = [heap EXCEPT !["ret"] = EarlyResult(heap["items"])]
            /\ resultRef' = "ret"
            /\ branch' = "empty"
            /\ pc' = "done"
            /\ UNCHANGED <<poolRef, wRef, remaining>>
       ELSE IF Len(heap["items"]) <= k
       THEN /\ heap' = [heap EXCEPT !["ret"] = heap["items"]]
            /\ resultRef' = ListCopy("items", "ret")
            /\ branch' = "copy"
            /\ pc' = "done"
            /\ UNCHANGED <<poolRef, wRef, remaining>>
       ELSE /\ heap' = [heap EXCEPT !["pool"] = heap["items"],
                                    !["w"] = heap["weights"],
                                    !["selected"] = <<>>]
            /\ poolRef' = ListCopy("items", "pool")
            /\ wRef' = ListCopy("weights", "w")
            /\ remaining' = LoopCount(k, heap["items"])
            /\ pc' = "loop"
            /\ UNCHANGED <<resultRef, branch>>
    /\ UNCHANGED <<k, lastDraw, raised, items0, weights0, caller>>
    /\ UNCHANGED <<reposVars, rankVars, careerVars>>

\* lines 300-318: one iteration of the loop
SampleLoop ==
    /\ pc = "loop"
    /\ remaining > 0
    /\ LET pool == heap[poolRef]
           w == heap[wRef]
           selected == heap["selected"]
       IN IF Total(w) <= 0
          THEN \* lines 302-305: shuffle the pool, fill the open slots, break
               \E perm \in Shuffles(pool) :
                  /\ heap' = [[heap EXCEPT ![poolRef] = perm]
                                 EXCEPT !["selected"] =
                                     selected \o FallbackTake(perm, k, selected)]
                  /\ remaining' = 0
                  /\ branch' = "fallback"
                  /\ UNCHANGED <<pc, lastDraw, raised>>
          ELSE \* lines 306-318: one weighted draw
               \E r2 \in Thresholds(w) :
                  LET idx == WalkIdx(w, r2)
                  IN IF idx \notin 1..Len(pool)
                     THEN \* pool[idx] raises IndexError
                          /\ raised' = TRUE
                          /\ pc' = "done"
                          /\ UNCHANGED <<heap, remaining, branch, lastDraw>>
                     ELSE /\ heap' = [[[heap EXCEPT !["selected"] =
                                                  Append(selected, pool[idx])]
                                          EXCEPT ![poolRef] = AfterPop(@, idx)]
                                          EXCEPT ![wRef] = AfterPop(@, idx)]
                          /\ remaining' = remaining - 1
                          /\ branch' = "draw"
                          /\ lastDraw' = [r2 |-> r2, pool |-> pool, w |-> w,
                                          idx |-> idx]
                          /\ UNCHANGED <<pc, raised>>
    /\ UNCHANGED <<poolRef, wRef, resultRef, k, items0, weights0, caller>>
    /\ UNCHANGED <<reposVars, rankVars, careerVars>>

\* line 319: return selected
SampleReturn ==
    /\ pc = "loop"
    /\ remaining = 0
    /\ resultRef' = "selected"
    /\ pc' = "done"
    /\ UNCHANGED <<heap, poolRef, wRef, k, remaining, branch, lastDraw, raised,
                   items0, weights0, caller>>
    /\ UNCHANGED <<reposVars, rankVars, careerVars>>

\* st.session_state before the first call: no cached repositories and no
\* weight tuned beyond the two the sidebar always writes (in thousandths)
EmptySession ==
    [github_repos |-> <<>>, github_topics_used |-> <<>>, github_fetch_count |-> 0,
     weights |-> [INTEREST_NAME_WEIGHT |-> 30000, INTEREST_DESC_WEIGHT |-> 18000]]

\* no get_combined_recommendations call is running
NoRankCall ==
    /\ kb = [courses |-> <<>>, practice |-> <<>>, jds |-> <<>>, advisors |-> <<>>]
    /\ kb_cands = <<>>
    /\ interests = <<>>
    /\ max_items = 0
    /\ all_cands = <<>>
    /\ scored = <<>>
    /\ ranked = <<>>
    /\ gpc = "off"

\* the frame of a call that was never made
IdleFrame ==
    [career_interests |-> <<>>, location |-> "", flag |-> FALSE, cidx |-> 0,
     results |-> <<>>, careers |-> <<>>, cpc |-> "off"]

\* no recommend_careers_by_interests_and_location call is running
NoCareerCall ==
    /\ career_config = <<>>
    /\ career_interests = <<>>
    /\ location = ""
    /\ prioritize_national_strategic = FALSE
    /\ cidx = 0
    /\ results = <<>>
    /\ admitted = <<>>
    /\ strict = <<>>
    /\ took_backfill = FALSE
    /\ backfilled = <<>>
    /\ careers = <<>>
    /\ cpc = "off"
    /\ other = IdleFrame

EmptyHeap ==
    [n \in {"items", "weights", "pool", "w", "selected", "ret"} |-> <<>>]

\* a call weighted_sample_without_replacement(items, weights, kk)
CallState(items, weights, kk, who) ==
    /\ heap = [EmptyHeap EXCEPT !["items"] = items, !["weights"] = weights]
    /\ poolRef = "none"
    /\ wRef = "none"
    /\ resultRef = "none"
    /\ k = kk
    /\ remaining = 0
    /\ pc = "entry"
    /\ branch = "none"
    /\ lastDraw = NoDraw
    /\ raised = FALSE
    /\ items0 = items
    /\ weights0 = weights
    /\ caller = who

\* the sampler called on any list of up to MaxLen items (an item is its
\* position), any list of weights and any k
InitSample ==
    /\ \E n \in 0..MaxLen, weights \in SeqsUpTo(WeightChoices, MaxLen),
          kk \in -1..(MaxLen + 1) :
           CallState([i \in 1..n |-> i], weights, kk, "direct")
    /\ session = EmptySession
    /\ cands = <<>>
    /\ fetched_cands = <<>>
    /\ rpc = "direct"
    /\ out = <<>>
    /\ NoRankCall
    /\ NoCareerCall

NextSample == SampleEntry \/ SampleLoop \/ SampleReturn

SpecSample == InitSample /\ [][NextSample]_vars

FairSpecSample == SpecSample /\ WF_vars(NextSample)

---------------------------------------------------------------------------
(* recommend_random_repos *)

\* CONFIG["GITHUB_PICK_TOTAL"]
GITHUB_PICK_TOTAL == 8

\* round(1000 * ln(1 + s)) for s = 0 .. 15
LnMilliTable ==
    <<0, 693, 1099, 1386, 1609, 1792, 1946, 2079, 2197, 2303, 2398, 2485,
      2565, 2639, 2708, 2773>>

\* math.log1p(s), in thousandths, for s = 0 .. 15 and for s = 1000
Log1pMilli(s) ==
    CASE s = 1000 -> 6909
      [] OTHER -> LnMilliTable[s + 1]

\* math.log1p(c.get("stargazers_count", 0) or 0) + 0.1, in thousandths
RepoWeightNoFloor(stars) == Log1pMilli(stars)

RepoWeight(stars) == Log1pMilli(stars) + 100

\* A repository record as the crawler returns it.  A string is a sequence
\* of characters; <<>> stands for a missing, None or empty value.  html_url is
\* left out: nothing reads it back.
Raw(full_name, owner, name, stars, description, language) ==
    [full_name |-> full_name, owner |-> owner, name |-> name,
     stargazers_count |-> stars, description |-> description,
     language |-> language]

RepoA == Raw(<<"o", "/", "a">>, <<"o">>, <<"a">>, 0, <<"m", "l">>, <<"G", "o">>)

RepoB == Raw(<<"o", "/", "b">>, <<"o">>, <<"b">>, 0, <<>>, <<>>)

RepoC == Raw(<<"o", "/", "c">>, <<"o">>, <<"c">>, 8, <<>>, <<"G", "o">>)

\* the record of o/a without its full_name, with another star count
RepoA2 == Raw(<<>>, <<"o">>, <<"a">>, 6, <<>>, <<>>)

\* the result of one top_repos_for_topic call: an exception, or a list
FetchOutcomes ==
    {[raises |-> TRUE, repos |-> <<>>],
     [raises |-> FALSE, repos |-> <<>>],
     [raises |-> FALSE, repos |-> <<RepoA, RepoB>>],
     [raises |-> FALSE, repos |-> <<RepoA2, RepoC>>]}

\* an excerpt of INTEREST_TOPIC_MAP: one mapped interest (two of its topics);
\* any other interest is its own topic
INTEREST_TOPIC_MAP ==
    [i \in {<<"m", "l">>} |-> << <<"p", "y">>, <<"t", "f">> >>]

\* the interests lists of a call
InterestLists == {<<>>, << <<"m", "l">> >>, << <<"G", "o">> >>}

\* total_pick as passed: 0 stands for None (and 0), which `or` replaces
TotalPickChoices == {0, 1, 2}

\* lines 339-345: the mapped topics of every interest, else the interest,
\* without empty entries and without repeats
RECURSIVE Dedupe(_)
Dedupe(seq) ==
    IF seq = <<>> THEN <<>>
    ELSE LET front == Dedupe(SubSeq(seq, 1, Len(seq) - 1))
             last == seq[Len(seq)]
         IN IF last \in Range(front) THEN front ELSE Append(front, last)

RECURSIVE TopicsOf(_)
TopicsOf(user_interests) ==
    IF user_interests = <<>> THEN <<>>
    ELSE LET i == Head(user_interests)
             mapped == IF i \in DOMAIN INTEREST_TOPIC_MAP
                       THEN INTEREST_TOPIC_MAP[i] ELSE <<>>
         IN (IF mapped # <<>> THEN mapped ELSE <<i>>) \o TopicsOf(Tail(user_interests))

TopicList(user_interests) ==
    Dedupe(SelectSeq(TopicsOf(user_interests), LAMBDA t : t # <<>>))

\* r.get("full_name") or f"{r.get('owner','')}/{r.get('name','')}"
FetchKey(r) ==
    IF r.full_name # <<>> THEN r.full_name ELSE r.owner \o <<"/">> \o r.name

\* lines 361-370 and 383-392: the candidate built from a record
Item(key, r, topic) ==
    [full_name |-> key, description |-> r.description,
     stargazers_count |-> r.stargazers_count, language |-> r.language,
     matched_interest |-> topic]

Keys(items) == {items[i].full_name : i \in DOMAIN items}

\* lines 356-371: the records of one topic, skipping seen keys
RECURSIVE AddFetched(_, _, _)
AddFetched(acc, fetched, topic) ==
    IF fetched = <<>> THEN acc
    ELSE LET r == Head(fetched)
             key == FetchKey(r)
         IN IF key = <<>> \/ key \in Keys(acc)
            THEN AddFetched(acc, Tail(fetched), topic)
            ELSE AddFetched(Append(acc, Item(key, r, topic)), Tail(fetched),
                            topic)

\* lines 348-371: every topic in turn; a fetch that raises counts as []
RECURSIVE FetchAll(_, _, _)
FetchAll(acc, topics, outcomes) ==
    IF topics = <<>> THEN acc
    ELSE LET o == Head(outcomes)
             fetched == IF o.raises THEN <<>> ELSE o.repos
         IN FetchAll(AddFetched(acc, fetched, Head(topics)), Tail(topics),
                     Tail(outcomes))

\* lines 377-393: the candidates rebuilt from the cached list
RECURSIVE FromCache(_, _)
FromCache(acc, cached) ==
    IF cached = <<>> THEN acc
    ELSE LET r == Head(cached)
             key == r.full_name
         IN IF key = <<>> \/ key \in Keys(acc)
            THEN FromCache(acc, Tail(cached))
            ELSE FromCache(Append(acc, Item(key, r, r.matched_interest)),
                           Tail(cached))

\* the cached list written whether or not the fetches produced a candidate
CacheAfterAlways(fetched, old) == fetched

\* lines 373-374: st.session_state["github_repos"] after the fetches
CacheAfter(fetched, old) == IF fetched # <<>> THEN fetched ELSE old

\* the sampler's frame while no call is running
NoCall ==
    /\ heap = EmptyHeap
    /\ poolRef = "none"
    /\ wRef = "none"
    /\ resultRef = "none"
    /\ k = 0
    /\ remaining = 0
    /\ pc = "returned"
    /\ branch = "none"
    /\ lastDraw = NoDraw
    /\ raised = FALSE
    /\ items0 = <<>>
    /\ weights0 = <<>>
    /\ caller = "repos"

\* lines 328-405: everything up to the call of the sampler
ReposCall ==
    /\ rpc = "idle"
    /\ \E user_interests \in InterestLists, hasCrawler \in BOOLEAN,
          tp \in TotalPickChoices :
        LET total_pick == IF tp # 0 THEN tp ELSE GITHUB_PICK_TOTAL
            topic_list == IF hasCrawler THEN TopicList(user_interests) ELSE <<>>
        IN \E outcomes \in [1..Len(topic_list) -> FetchOutcomes] :
            LET fetched == FetchAll(<<>>, topic_list, outcomes)
                cached == CacheAfter(fetched, session.github_repos)
                candidates == IF fetched = <<>> /\ cached # <<>>
                              THEN FromCache(<<>>, cached) ELSE fetched
                n == Len(candidates)
                weights == [i \in 1..n |->
                               RepoWeight(candidates[i].stargazers_count)]
            IN IF user_interests = <<>>
               THEN \* line 331: return []
                    /\ out' = <<>>
                    /\ fetched_cands' = <<>>
                    /\ UNCHANGED <<session, cands, rpc, samplerVars>>
               ELSE /\ fetched_cands' = fetched
                    /\ session' = [session EXCEPT
                                       !.github_repos = cached,
                                       !.github_topics_used = topic_list,
                                       !.github_fetch_count = n]
                    /\ IF candidates = <<>>
                       THEN \* line 399: return []
                            /\ out' = <<>>
                            /\ UNCHANGED <<cands, rpc, samplerVars>>
                       ELSE \* lines 401-405
                            /\ cands' = candidates
                            /\ rpc' = "sampling"
                            /\ heap' = [EmptyHeap EXCEPT
                                           !["items"] = [i \in 1..n |-> i],
                                           !["weights"] = weights]
                            /\ items0' = [i \in 1..n |-> i]
                            /\ weights0' = weights
                            /\ k' = Min(total_pick, n)
                            /\ pc' = "entry"
                            /\ UNCHANGED <<poolRef, wRef, resultRef, remaining,
                                           branch, lastDraw, raised, caller,
                                           out>>
    /\ UNCHANGED <<rankVars, careerVars>>

\* lines 406-407: shuffle the sampler's list in place and return it; the
\* frames of both functions are gone after the return
ReposFinish ==
    /\ rpc = "sampling"
    /\ pc = "done"
    /\ ~raised
    /\ \E perm \in Shuffles(heap[resultRef]) :
          out' = [i \in DOMAIN perm |-> cands[perm[i]]]
    /\ rpc' = "idle"
    /\ cands' = <<>>
    /\ heap' = EmptyHeap
    /\ poolRef' = "none"
    /\ wRef' = "none"
    /\ resultRef' = "none"
    /\ k' = 0
    /\ remaining' = 0
    /\ pc' = "returned"
    /\ branch' = "none"
    /\ lastDraw' = NoDraw
    /\ raised' = FALSE
    /\ items0' = <<>>
    /\ weights0' = <<>>
    /\ UNCHANGED <<caller, session, fetched_cands, rankVars, careerVars>>

\* the session before the first call
Init ==
    /\ NoCall
    /\ session = EmptySession
    /\ cands = <<>>
    /\ fetched_cands = <<>>
    /\ rpc = "idle"
    /\ out = <<>>
    /\ NoRankCall
    /\ NoCareerCall

Next == ReposCall \/ SampleEntry \/ SampleLoop \/ SampleReturn \/ ReposFinish

Spec == Init /\ [][Next]_vars

---------------------------------------------------------------------------
(* _score_candidate_live and get_combined_recommendations.  Scores are     *)
(* counted in thousandths, the rounded score field in hundredths.          *)

\* None
PyNone == <<"<None>">>

\* truthiness of a string or None
Truthy(x) == x # PyNone /\ x # <<>>

\* x or ""
OrEmpty(x) == IF Truthy(x) THEN x ELSE <<>>

\* str(x)
Str(x) == IF x = PyNone THEN <<"N", "o", "n", "e">> ELSE x

\* str.lower()
LowerChar(c) ==
    CASE c = "M" -> "m"
      [] c = "L" -> "l"
      [] c = "G" -> "g"
      [] c = "N" -> "n"
      [] OTHER -> c

LowerKeep(str) == str

Lower(str) == [i \in DOMAIN str |-> LowerChar(str[i])]

\* a in b, for strings
IsSubstr(a, b) ==
    \E i \in 0..(Len(b) - Len(a)) : SubSeq(b, i + 1, i + Len(a)) = a

\* DEFAULT_WEIGHTS, merged into CONFIG
DEFAULT_WEIGHTS ==
    [INTEREST_NAME_WEIGHT |-> 30000,
     INTEREST_DESC_WEIGHT |-> 18000,
     TAG_MATCH_WEIGHT |-> 12000,
     KB_BASE_SCORE |-> 6000,
     SOURCE_GITHUB_BONUS |-> 5000,
     SOURCE_KB_BONUS |-> 2000,
     GITHUB_STAR_WEIGHT_FACTOR |-> 6000,
     GITHUB_STAR_MAX_BONUS |-> 40000,
     RANDOM_TIE_BREAKER |-> 1500]

\* lines 231-234: every weight from the session state, else from CONFIG
LiveWeights(sess) ==
    [key \in DOMAIN DEFAULT_WEIGHTS |->
        IF key \in DOMAIN sess.weights THEN sess.weights[key]
        ELSE DEFAULT_WEIGHTS[key]]

\* the weights in the session state: as the sidebar writes them on every run,
\* and after its preset for projects
TunedWeights ==
    {[INTEREST_NAME_WEIGHT |-> 30000, INTEREST_DESC_WEIGHT |-> 18000],
     [INTEREST_NAME_WEIGHT |-> 36000, INTEREST_DESC_WEIGHT |-> 16000,
      GITHUB_STAR_WEIGHT_FACTOR |-> 8000, SOURCE_GITHUB_BONUS |-> 7000]}

\* dict.get(key, default): the default for an absent key only; a key
\* present with a null value gives None
Get(r, key, default) == IF key \in DOMAIN r THEN r[key] ELSE default

\* the text of the prefixes and separators of the ids and names
CoursePrefix == <<"c", "o", "u", "r", "s", "e", ":">>
PracticePrefix == <<"p", "r", "a", "c", "t", "i", "c", "e", ":">>
JdPrefix == <<"j", "d", ":">>
AdvisorPrefix == <<"a", "d", "v", "i", "s", "o", "r", ":">>
GithubPrefix == <<"g", "i", "t", "h", "u", "b", ":">>

\* str.strip(), of blanks
RECURSIVE LStrip(_)
LStrip(str) ==
    IF str # <<>> /\ Head(str) = " " THEN LStrip(Tail(str)) ELSE str

RECURSIVE RStrip(_)
RStrip(str) ==
    IF str # <<>> /\ str[Len(str)] = " "
    THEN RStrip(SubSeq(str, 1, Len(str) - 1)) ELSE str

Strip(str) == RStrip(LStrip(str))

\* str.split("/")
RECURSIVE Split(_)
Split(str) ==
    IF \E i \in DOMAIN str : str[i] = "/"
    THEN LET i == CHOOSE j \in DOMAIN str :
                      str[j] = "/" /\ \A h \in 1..(j - 1) : str[h] # "/"
         IN <<SubSeq(str, 1, i - 1)>> \o Split(SubSeq(str, i + 1, Len(str)))
    ELSE <<str>>

\* [f(x) for x in seq], flattened
RECURSIVE Flatten(_)
Flatten(seqs) ==
    IF seqs = <<>> THEN <<>> ELSE Head(seqs) \o Flatten(Tail(seqs))

\* lines 147-157: the candidate of one course of a major
CourseCandidate(major, c) ==
    [id |-> CoursePrefix \o Str(Get(c, "code", <<>>)),
     name |-> Get(c, "name", PyNone),
     type |-> "course",
     desc |-> Get(c, "outline", <<>>),
     tags |-> <<Get(c, "level", <<>>), major>>,
     source |-> "KB",
     url |-> Get(c, "link", <<>>),
     meta |-> c]

\* lines 160-170
PracticeCandidate(p) ==
    [id |-> PracticePrefix \o Str(Get(p, "name", PyNone)),
     name |-> Get(p, "name", PyNone),
     type |-> "practice",
     desc |-> Get(p, "desc", <<>>),
     tags |-> <<Get(p, "type", <<>>)>>,
     source |-> "KB",
     url |-> Get(p, "link", <<>>),
     meta |-> p]

\* lines 173-183
JdCandidate(j) ==
    [id |-> JdPrefix \o Str(Get(j, "company", PyNone)) \o <<"_">>
                \o Str(Get(j, "position", PyNone)),
     name |-> Str(Get(j, "company", PyNone)) \o <<" ", "-", " ">>
                  \o Str(Get(j, "position", PyNone)),
     type |-> "job",
     desc |-> Get(j, "jd", <<>>),
     tags |-> Get(j, "skills", <<>>),
     source |-> "KB",
     url |-> Get(j, "link", <<>>),
     meta |-> j]

\* a non-blank piece of the research text
NonBlank(x) == Strip(x) # <<>>

\* lines 186-190: the tags of an advisor
AdvisorTags(a) ==
    LET pieces == SelectSeq(Split(Get(a, "research", <<>>)), NonBlank)
    IN (IF Truthy(Get(a, "department", PyNone))
        THEN <<Get(a, "department", PyNone)>> ELSE <<>>)
       \o (IF Truthy(Get(a, "research", PyNone))
           THEN [i \in DOMAIN pieces |-> Strip(pieces[i])] ELSE <<>>)

\* lines 191-201
AdvisorCandidate(a) ==
    [id |-> AdvisorPrefix \o Str(Get(a, "name", PyNone)),
     name |-> Get(a, "name", PyNone),
     type |-> "advisor",
     desc |-> Get(a, "research", <<>>),
     tags |-> AdvisorTags(a),
     source |-> "KB",
     url |-> Get(a, "homepage", <<>>),
     meta |-> a]

\* the candidates of the courses of one major, in the order of its list
CoursesOfMajor(m) == [i \in DOMAIN m.list |-> CourseCandidate(m.major, m.list[i])]

\* _kb_items_as_candidates: courses major by major, then practice, job
\* descriptions and advisors
KbItemsAsCandidates(base) ==
    LET courses == Get(base, "courses", <<>>)
        practice == Get(base, "practice", <<>>)
        jds == Get(base, "jds", <<>>)
        advisors == Get(base, "advisors", <<>>)
    IN Flatten([m \in DOMAIN courses |-> CoursesOfMajor(courses[m])])
       \o [i \in DOMAIN practice |-> PracticeCandidate(practice[i])]
       \o [i \in DOMAIN jds |-> JdCandidate(jds[i])]
       \o [i \in DOMAIN advisors |-> AdvisorCandidate(advisors[i])]

\* the raw records a knowledge base of a call is made of: a course whose
\* code is missing, a job description without company and position and with
\* a null skill, an advisor without a name and with a null department
RawEntries ==
    {[cat |-> "course", major |-> <<"m", "l">>,
      rec |-> [name |-> <<"M", "L">>, outline |-> <<"m", "l", "g", "o">>,
               level |-> <<>>]],
     [cat |-> "jd",
      rec |-> [jd |-> <<"G", "o">>,
               skills |-> <<PyNone, <<"G", "o">>, <<"g", "o">> >>,
               heat |-> 30]],
     [cat |-> "advisor",
      rec |-> [department |-> PyNone,
               research |-> <<"m", "l", "/", " ", "g", "o", "/", " ">>,
               heat |-> 100]]}

IsCourse(e) == e.cat = "course"
IsPractice(e) == e.cat = "practice"
IsJd(e) == e.cat = "jd"
IsAdvisor(e) == e.cat = "advisor"

\* the records of a list of entries
RecsOf(entries) == [i \in DOMAIN entries |-> entries[i].rec]

\* the knowledge base holding the entries: every course under its major (the
\* entries here have one major), the other records in their lists
KBOf(entries) ==
    LET courses == SelectSeq(entries, IsCourse)
    IN [courses |-> IF courses = <<>> THEN <<>>
                    ELSE <<[major |-> courses[1].major, list |-> RecsOf(courses)]>>,
        practice |-> RecsOf(SelectSeq(entries, IsPractice)),
        jds |-> RecsOf(SelectSeq(entries, IsJd)),
        advisors |-> RecsOf(SelectSeq(entries, IsAdvisor))]

\* most records of the knowledge base of a call
MaxKB == 2

\* largest max_items of a call
MaxItems == 2

\* the interests lists of a get_combined_recommendations call: non-empty
\* strings, one of them part of the text str() gives a null tag
RankInterestLists ==
    {<<>>,
     << <<"m", "l">> >>,
     << <<"M", "L">>, <<"G", "o">> >>,
     << <<"g", "o">>, <<"g", "o">> >>,
     << <<"n">> >>}

\* a cached repository, as recommend_random_repos stores it
Cached(key, stars, language) ==
    [full_name |-> key, description |-> <<>>, stargazers_count |-> stars,
     language |-> language, matched_interest |-> <<"p", "y">>]

\* the cached repository lists of a call
CachedRepoLists ==
    {<<>>,
     <<Cached(<<"o", "/", "a">>, 6, <<>>), Cached(<<"o", "/", "c">>, 8, <<"G", "o">>)>>,
     <<Cached(<<"o", "/", "c">>, 8, <<"G", "o">>), Cached(<<"o", "/", "a">>, 6, <<>>)>>,
     <<Cached(<<"o", "/", "b">>, 1000, <<>>)>>}

\* lines 210-226: the candidate of one cached repository
GithubCandidate(r) ==
    LET key == IF Truthy(Get(r, "full_name", PyNone)) THEN r.full_name
               ELSE Str(Get(r, "owner", <<>>)) \o <<"/">> \o Str(Get(r, "name", <<>>))
    IN [id |-> GithubPrefix \o key,
        name |-> key,
        type |-> "github",
        desc |-> Get(r, "description", <<>>),
        tags |-> <<Get(r, "language", <<>>)>>
                     \o (IF Truthy(Get(r, "matched_interest", PyNone))
                         THEN <<r.matched_interest>> ELSE <<>>),
        source |-> "GitHub",
        url |-> Get(r, "html_url", PyNone),
        stars |-> Get(r, "stargazers_count", Get(r, "stargazers", 0)),
        meta |-> r]

\* _github_repos_candidates_from_session
GithubCandidates(sess) ==
    [i \in DOMAIN sess.github_repos |-> GithubCandidate(sess.github_repos[i])]

\* line 238: [str(t).lower() for t in candidate.get("tags", []) if t]
ScoreTags(c) ==
    LET kept == SelectSeq(c.tags, Truthy)
    IN [i \in DOMAIN kept |-> Lower(Str(kept[i]))]

\* lines 240-245: the three tests of one interest
ScoreHits(c, i) ==
    LET ik == Lower(i)
        tags == ScoreTags(c)
    IN [name |-> IsSubstr(ik, Lower(OrEmpty(c.name))),
        desc |-> IsSubstr(ik, Lower(OrEmpty(c.desc))),
        tag |-> \E t \in DOMAIN tags : IsSubstr(ik, tags[t])]

\* lines 240-246: what one interest adds
InterestHit(c, i, W) ==
    (IF ScoreHits(c, i).name THEN W.INTEREST_NAME_WEIGHT ELSE 0)
    + (IF ScoreHits(c, i).desc THEN W.INTEREST_DESC_WEIGHT ELSE 0)
    + (IF ScoreHits(c, i).tag THEN W.TAG_MATCH_WEIGHT ELSE 0)

\* lines 239-246: the hits of every interest, added up
InterestScoreOnce(c, ints, W) ==
    IF \E i \in DOMAIN ints : InterestHit(c, ints[i], W) > 0
    THEN InterestHit(c, ints[CHOOSE i \in DOMAIN ints :
                                 InterestHit(c, ints[i], W) > 0], W)
    ELSE 0

InterestScore(c, ints, W) ==
    Total([i \in DOMAIN ints |-> InterestHit(c, ints[i], W)])

\* the source bonus with the star bonus left uncapped
SourceScoreUncapped(c, W) ==
    IF c.source = "GitHub"
    THEN (Log1pMilli(Get(c, "stars", 0)) * W.GITHUB_STAR_WEIGHT_FACTOR)
             \div 1000 + W.SOURCE_GITHUB_BONUS
    ELSE W.KB_BASE_SCORE + W.SOURCE_KB_BONUS
         + (IF Get(c.meta, "heat", 0) # 0
            THEN Min(8000, Get(c.meta, "heat", 0) * 100) ELSE 0)

\* lines 247-257: the source bonus
SourceScore(c, W) ==
    IF c.source = "GitHub"
    THEN Min((Log1pMilli(Get(c, "stars", 0)) * W.GITHUB_STAR_WEIGHT_FACTOR)
                 \div 1000,
             W.GITHUB_STAR_MAX_BONUS) + W.SOURCE_GITHUB_BONUS
    ELSE W.KB_BASE_SCORE + W.SOURCE_KB_BONUS
         + (IF Get(c.meta, "heat", 0) # 0
            THEN Min(8000, Get(c.meta, "heat", 0) * 100) ELSE 0)

\* line 258: random.uniform(0, RANDOM_TIE_BREAKER), at both ends of the
\* interval (at this resolution the upper end stands for the draws just
\* under it as well)
JitterChoices(W) == {0, W.RANDOM_TIE_BREAKER}

\* round(s, 2), in hundredths; a value half-way between two hundredths goes
\* either way, as its binary representation decides
Round2Set(x) ==
    IF x % 10 = 5 THEN {x \div 10, x \div 10 + 1} ELSE {(x + 5) \div 10}

\* the clauses of match_reason had the three tests been an if/elif chain
ReasonClausesFirst(c, i) ==
    LET ik == Lower(i)
    IN IF IsSubstr(ik, Lower(OrEmpty(c.name))) THEN << <<"name", i>> >>
       ELSE IF IsSubstr(ik, Lower(OrEmpty(c.desc))) THEN << <<"desc", i>> >>
       ELSE IF \E t \in DOMAIN c.tags : IsSubstr(ik, Lower(Str(c.tags[t])))
            THEN << <<"tag", i>> >> ELSE <<>>

\* lines 275-284: the clauses of match_reason
ReasonClauses(c, i) ==
    LET ik == Lower(i)
    IN (IF IsSubstr(ik, Lower(OrEmpty(c.name))) THEN << <<"name", i>> >> ELSE <<>>)
       \o (IF IsSubstr(ik, Lower(OrEmpty(c.desc))) THEN << <<"desc", i>> >> ELSE <<>>)
       \o (IF \E t \in DOMAIN c.tags : IsSubstr(ik, Lower(Str(c.tags[t])))
           THEN << <<"tag", i>> >> ELSE <<>>)

RECURSIVE ReasonParts(_, _)
ReasonParts(c, ints) ==
    IF ints = <<>> THEN <<>>
    ELSE ReasonClauses(c, Head(ints)) \o ReasonParts(c, Tail(ints))

\* "; ".join(reason_parts) or the fixed low-confidence string
MatchReason(c, ints) ==
    LET parts == ReasonParts(c, ints)
    IN [low |-> parts = <<>>, parts |-> parts]

\* list.sort(key=score, reverse=True): stable, equal scores keep their order
RECURSIVE InsertDesc(_, _)
InsertDesc(sorted, e) ==
    IF sorted = <<>> THEN <<e>>
    ELSE IF Head(sorted).score >= e.score
         THEN <<Head(sorted)>> \o InsertDesc(Tail(sorted), e)
         ELSE <<e>> \o sorted

RECURSIVE InsertAsc(_, _)
InsertAsc(sorted, e) ==
    IF sorted = <<>> THEN <<e>>
    ELSE IF Head(sorted).score <= e.score
         THEN <<Head(sorted)>> \o InsertAsc(Tail(sorted), e)
         ELSE <<e>> \o sorted

RECURSIVE SortAsc(_)
SortAsc(seq) ==
    IF seq = <<>> THEN <<>>
    ELSE InsertAsc(SortAsc(SubSeq(seq, 1, Len(seq) - 1)), seq[Len(seq)])

RECURSIVE SortDesc(_)
SortDesc(seq) ==
    IF seq = <<>> THEN <<>>
    ELSE InsertDesc(SortDesc(SubSeq(seq, 1, Len(seq) - 1)), seq[Len(seq)])

\* lines 265-270
RankEntry ==
    /\ gpc = "entry"
    /\ IF interests = <<>>
       THEN /\ ranked' = <<>>
            /\ gpc' = "done"
            /\ UNCHANGED <<kb_cands, all_cands>>
       ELSE /\ kb_cands' = KbItemsAsCandidates(kb)
            /\ all_cands' = kb_cands' \o GithubCandidates(session)
            /\ gpc' = "loop"
            /\ UNCHANGED ranked
    /\ UNCHANGED <<kb, interests, max_items, scored, samplerVars, reposVars,
                   careerVars>>

\* lines 271-285: one candidate scored, with the weights of this moment
RankScore ==
    /\ gpc = "loop"
    /\ Len(scored) < Len(all_cands)
    /\ LET c == all_cands[Len(scored) + 1]
           W == LiveWeights(session)
           hits == InterestScore(c, interests, W)
           pre == hits + SourceScore(c, W)
       IN \E jitter \in JitterChoices(W) :
          \E rounded \in Round2Set(pre + jitter) :
             scored' = Append(scored,
                 [cand |-> c, score |-> rounded,
                  match_reason |-> MatchReason(c, interests),
                  interest_score |-> hits, pre_jitter |-> pre,
                  weights |-> W,
                  score_hits |-> [i \in DOMAIN interests |->
                                     ScoreHits(c, interests[i])]])
    /\ UNCHANGED <<kb, kb_cands, interests, max_items, all_cands, ranked, gpc,
                   samplerVars, reposVars, careerVars>>

\* lines 286-287
RankReturn ==
    /\ gpc = "loop"
    /\ Len(scored) = Len(all_cands)
    /\ ranked' = SlicePrefix(SortDesc(scored), max_items)
    /\ gpc' = "done"
    /\ UNCHANGED <<kb, kb_cands, interests, max_items, all_cands, scored,
                   samplerVars, reposVars, careerVars>>

\* get_combined_recommendations called on any knowledge-base candidates,
\* interests and max_items, in a session with any cached repositories
InitRank ==
    /\ NoCall
    /\ cands = <<>>
    /\ fetched_cands = <<>>
    /\ rpc = "off"
    /\ out = <<>>
    /\ \E cached \in CachedRepoLists, tuned \in TunedWeights :
          session = [EmptySession EXCEPT !.github_repos = cached,
                                         !.weights = tuned]
    /\ kb \in {KBOf(entries) : entries \in SeqsUpTo(RawEntries, MaxKB)}
    /\ kb_cands = <<>>
    /\ interests \in RankInterestLists
    /\ max_items \in -1..MaxItems
    /\ all_cands = <<>>
    /\ scored = <<>>
    /\ ranked = <<>>
    /\ gpc = "entry"
    /\ NoCareerCall

NextRank == RankEntry \/ RankScore \/ RankReturn

SpecRank == InitRank /\ [][NextRank]_vars

\* a writer of the session state sets the tunable weights to other values
\* (as the sidebar and its presets do) while the call is under way
TuneWeights ==
    /\ gpc \in {"entry", "loop"}
    /\ \E tuned \in TunedWeights :
          /\ tuned # session.weights
          /\ session' = [session EXCEPT !.weights = tuned]
    /\ UNCHANGED <<cands, fetched_cands, rpc, out, samplerVars, rankVars,
                   careerVars>>

NextRankTuned == RankEntry \/ RankScore \/ RankReturn \/ TuneWeights

\* get_combined_recommendations with a writer of the weights beside it
SpecRankTuned == InitRank /\ [][NextRankTuned]_vars

---------------------------------------------------------------------------
(* recommend_careers_by_interests_and_location.  Scores are counted in     *)
(* halves.  Tags, cities and career names are compared as whole strings;   *)
(* the Chinese texts of the source are written in English here.  The       *)
(* skills, salary and companies of a profile are copied to its entry       *)
(* unchanged and are left out.                                             *)

LOCATION_GLOBAL == "nationwide"

NATIONAL_STRATEGIC_BONUS == 2

\* the career name of a profile without a "career" key: None
NoCareer == "<None>"

Profile(career, tags, locations) ==
    [career |-> career, tags |-> tags, locations |-> locations,
     national_strategic |-> FALSE]

StrategicProfile(career, tags, locations, field) ==
    [career |-> career, tags |-> tags, locations |-> locations,
     national_strategic |-> TRUE, strategic_field |-> field]

\* lines 412-509: the table as shipped
CAREER_CONFIG ==
    <<Profile("backend-engineer", <<"python-dev", "backend", "web-dev">>, <<>>),
      Profile("data-analyst",
              <<"data-analysis", "python-dev", "machine-learning">>,
              <<"Beijing", "Shanghai", "Shenzhen", "Guangzhou", "Hangzhou">>),
      Profile("ml-engineer",
              <<"machine-learning", "deep-learning", "algorithms", "python-dev">>,
              <<"Beijing", "Shanghai", "Shenzhen", "Hangzhou", "Guangzhou">>),
      Profile("algorithm-engineer",
              <<"machine-learning", "algorithms", "data-mining">>,
              <<"Beijing", "Shanghai", "Shenzhen", "Hangzhou", "Nanjing", "Chengdu">>),
      Profile("frontend-engineer", <<"frontend", "web-dev">>, <<>>),
      StrategicProfile("chip-design-engineer",
              <<"embedded", "algorithms", "hardware">>,
              <<"Beijing", "Shanghai", "Shenzhen", "Chengdu", "Xian", "Hangzhou">>,
              "chips"),
      StrategicProfile("security-engineer",
              <<"security", "backend", "algorithms">>,
              <<"Beijing", "Shanghai", "Shenzhen", "Hangzhou", "Chengdu">>,
              "security"),
      StrategicProfile("aerospace-software-engineer",
              <<"embedded", "algorithms", "backend">>,
              <<"Beijing", "Xian", "Shanghai", "Chengdu">>, "aerospace"),
      StrategicProfile("smart-grid-engineer",
              <<"embedded", "backend", "iot">>,
              <<"Beijing", "Shanghai", "Nanjing", "Wuhan", "Chengdu">>, "energy"),
      StrategicProfile("rural-it-engineer",
              <<"backend", "frontend", "data-analysis">>,
              <<LOCATION_GLOBAL>>, "rural")>>

\* a table whose profiles are all restricted to cities, one of them by a list
\* that names the sentinel among cities
RestrictedTable ==
    <<Profile("data-analyst",
              <<"data-analysis", "python-dev", "machine-learning">>,
              <<"Beijing", "Shanghai">>),
      StrategicProfile("chip-design-engineer", <<"embedded", "algorithms">>,
              <<LOCATION_GLOBAL, "Beijing">>, "chips")>>

\* a table with several profiles of one name, profiles without a name, and
\* profiles whose tags and locations are missing or null
DuplicateTable ==
    <<Profile("ml-engineer", <<"machine-learning">>, <<>>),
      StrategicProfile("ml-engineer", <<"machine-learning", "algorithms">>,
              <<"Beijing">>, "chips"),
      [career |-> "ml-engineer"],
      [tags |-> <<"frontend">>],
      [tags |-> <<"frontend", "machine-learning">>, locations |-> PyNone,
       national_strategic |-> TRUE],
      [career |-> "tester", tags |-> PyNone, locations |-> <<"Beijing">>]>>

\* a table with the two generic development careers and no profile of a
\* machine-learning, algorithms or data-analysis tag
GenericTable ==
    <<Profile("backend-engineer", <<"backend">>, <<>>),
      Profile("tester", <<"testing">>, <<>>),
      Profile("frontend-engineer", <<"frontend">>, <<"Beijing">>)>>

\* the tables a call may find in force
CareerTables ==
    {<<>>, CAREER_CONFIG, RestrictedTable, DuplicateTable, GenericTable}

\* the entries an interests argument is made of: tags of the table, a text
\* that is no tag, a padded tag and a blank
CareerInterestChoices ==
    {"machine-learning", "algorithms", "frontend", "embroidery",
     " machine-learning ", " "}

\* longest interests argument of a call
MaxInterests == 2

\* the location arguments of a call
LocationChoices == {"", LOCATION_GLOBAL, "Beijing", " Beijing ", "Xiamen"}

\* str.strip(), on the texts above
StripText(str) ==
    CASE str = " " -> ""
      [] str = " machine-learning " -> "machine-learning"
      [] str = " Beijing " -> "Beijing"
      [] OTHER -> str

NonEmptyText(str) == str # ""

\* line 537
StripInterests(ints) ==
    SelectSeq([i \in DOMAIN ints |-> StripText(ints[i])], NonEmptyText)

\* line 538
NormalLocation(loc) ==
    IF StripText(loc) = "" THEN LOCATION_GLOBAL ELSE StripText(loc)

\* lines 543-545
Tags(c) == OrEmpty(Get(c, "tags", <<>>))

Locs(c) == OrEmpty(Get(c, "locations", <<>>))

IsNationalStrategic(c) == Get(c, "national_strategic", FALSE)

\* _is_global_location
IsGlobalLocation(locations) ==
    locations = <<>> \/ locations = <<LOCATION_GLOBAL>>

\* the location filter left out
LocationExcludesNever(c, loc) == FALSE

\* lines 548-550: the location filter
LocationExcludes(c, loc) ==
    /\ loc # LOCATION_GLOBAL
    /\ Locs(c) # <<>>
    /\ ~IsGlobalLocation(Locs(c))
    /\ loc \notin Range(Locs(c))

\* an overlap that counts one shared tag at most
OverlapAny(c, ints) ==
    IF ints # <<>> /\ Range(ints) \cap Range(Tags(c)) # {} THEN 1 ELSE 0

\* lines 553-556
Overlap(c, ints) ==
    IF ints # <<>> THEN Cardinality(Range(ints) \cap Range(Tags(c))) ELSE 0

\* lines 558-565
BaseScore(c, ints) ==
    IF ints = <<>> THEN 2
    ELSE IF Overlap(c, ints) = 0 THEN 0
    ELSE 2 * Overlap(c, ints)

\* lines 568-570
HasLocation(c, loc) ==
    /\ loc # LOCATION_GLOBAL
    /\ Locs(c) # <<>>
    /\ ~IsGlobalLocation(Locs(c))
    /\ loc \in Range(Locs(c))

\* a location bonus of a whole point
LocBonusWhole(c, loc) == IF HasLocation(c, loc) THEN 2 ELSE 0

\* lines 568-570: the bonus of 0.5, in halves
LocBonus(c, loc) == IF HasLocation(c, loc) THEN 1 ELSE 0

\* the strategic bonus left out
StrategicBonusNone(c, flag) == 0

\* lines 573-575
StrategicBonus(c, flag) ==
    IF flag /\ IsNationalStrategic(c) THEN 2 * NATIONAL_STRATEGIC_BONUS ELSE 0

\* line 577
StrictScore(c, ints, loc, flag) ==
    BaseScore(c, ints) + LocBonus(c, loc) + StrategicBonus(c, flag)

\* lines 581-599: the clauses of a strict match_reason
StrictReason(c, ints, loc) ==
    (IF Overlap(c, ints) > 0
     THEN <<[clause |-> "overlap", interests |-> ints, count |-> Overlap(c, ints)]>>
     ELSE <<[clause |-> "generic"]>>)
    \o (IF loc # LOCATION_GLOBAL
        THEN IF HasLocation(c, loc)
             THEN <<[clause |-> "local", location |-> loc]>>
             ELSE IF IsGlobalLocation(Locs(c))
                  THEN <<[clause |-> "anywhere"]>> ELSE <<>>
        ELSE <<[clause |-> "nationwide"]>>)
    \o (IF IsNationalStrategic(c)
        THEN <<[clause |-> "strategic",
                field |-> Get(c, "strategic_field", "national-key-field")]>>
        ELSE <<>>)

\* lines 601-612
StrictEntry(c, ints, loc, flag) ==
    [career |-> Get(c, "career", NoCareer),
     score |-> StrictScore(c, ints, loc, flag),
     match_reason |-> StrictReason(c, ints, loc),
     national_strategic |-> IsNationalStrategic(c),
     strategic_field |-> Get(c, "strategic_field", "")]

\* line 640: the fixed text of a backfilled entry
FallbackReason == <<[clause |-> "fallback"]>>

\* a backfilled entry given the reason of a strict entry without overlap
BackfillEntryGeneric(c) ==
    [career |-> Get(c, "career", NoCareer), score |-> 1,
     match_reason |-> <<[clause |-> "generic"]>>]

\* lines 633-642
BackfillEntry(c) ==
    [career |-> Get(c, "career", NoCareer), score |-> 1,
     match_reason |-> FallbackReason]

\* lines 618-627: the profiles the loop appends to `backup`
Picked(table, ints) ==
    LET Related(c) ==
            IF "machine-learning" \in Range(ints) \/ "algorithms" \in Range(ints)
            THEN \/ "machine-learning" \in Range(Tags(c))
                 \/ "algorithms" \in Range(Tags(c))
                 \/ "data-analysis" \in Range(Tags(c))
            ELSE Get(c, "career", NoCareer)
                     \in {"backend-engineer", "frontend-engineer"}
    IN SelectSeq(table, Related)

\* lines 616-630: the profiles the backfill falls back on
Backup(table, ints) ==
    IF Picked(table, ints) = <<>> THEN table ELSE Picked(table, ints)

\* `backup` bound to the table itself before the loop
BackupStartAlias == "table"

\* line 616: `backup` starts as a new empty list; line 630 binds the name to
\* the table only after the last append
BackupStart == "fresh"

\* lines 618-627: the table after the appends to `backup`, which reach it
\* only when `backup` is the table
TableAfterAppends(table, ints) ==
    IF BackupStart = "table" THEN table \o Picked(table, ints) ELSE table

\* the backfill entered whenever the strict pass is empty
BackfillConditionAny(res, ints) == res = <<>>

\* line 615
BackfillCondition(res, ints) == res = <<>> /\ ints # <<>>

\* lines 646-653: per career name the first entry, replaced by every later
\* one of a strictly greater score
RECURSIVE BestByNameFirst(_, _)
BestByNameFirst(best, rs) ==
    IF rs = <<>> THEN best
    ELSE IF \E i \in DOMAIN best : best[i].career = Head(rs).career
         THEN BestByNameFirst(best, Tail(rs))
         ELSE BestByNameFirst(Append(best, Head(rs)), Tail(rs))

RECURSIVE BestByName(_, _)
BestByName(best, rs) ==
    IF rs = <<>> THEN best
    ELSE LET r == Head(rs)
             at == {i \in DOMAIN best : best[i].career = r.career}
         IN IF at = {} THEN BestByName(Append(best, r), Tail(rs))
            ELSE LET i == CHOOSE j \in at : TRUE
                 IN IF r.score > best[i].score
                    THEN BestByName([best EXCEPT ![i] = r], Tail(rs))
                    ELSE BestByName(best, Tail(rs))

\* the sorted list returned whole
TopSixAll(sorted) == sorted

\* line 657
TopSix(sorted) == SlicePrefix(sorted, 6)

\* lines 537-540
CareerEntry ==
    /\ cpc = "entry"
    /\ career_interests' = StripInterests(career_interests)
    /\ location' = NormalLocation(location)
    /\ cidx' = 1
    /\ cpc' = "strict"
    /\ UNCHANGED <<career_config, prioritize_national_strategic, results,
                   admitted, strict, took_backfill, backfilled, careers, other,
                   samplerVars, reposVars, rankVars>>

\* lines 542-612: one profile of the strict pass
CareerStrict ==
    /\ cpc = "strict"
    /\ cidx <= Len(career_config)
    /\ LET c == career_config[cidx]
           entry == StrictEntry(c, career_interests, location,
                                prioritize_national_strategic)
       IN IF ~LocationExcludes(c, location) /\ entry.score > 0
          THEN /\ results' = Append(results, entry)
               /\ admitted' = Append(admitted, cidx)
          ELSE UNCHANGED <<results, admitted>>
    /\ cidx' = cidx + 1
    /\ UNCHANGED <<career_config, career_interests, location,
                   prioritize_national_strategic, strict, took_backfill,
                   backfilled, careers, cpc, other, samplerVars, reposVars,
                   rankVars>>

\* lines 614-642: the backfill, entered or passed by
CareerBackfill ==
    /\ cpc = "strict"
    /\ cidx > Len(career_config)
    /\ strict' = results
    /\ IF BackfillCondition(results, career_interests)
       THEN LET backup == Backup(career_config, career_interests)
                added == [i \in DOMAIN backup |-> BackfillEntry(backup[i])]
            IN /\ results' = results \o added
               /\ backfilled' = added
               /\ took_backfill' = TRUE
               /\ career_config' =
                      TableAfterAppends(career_config, career_interests)
       ELSE UNCHANGED <<results, backfilled, took_backfill, career_config>>
    /\ cpc' = "dedupe"
    /\ UNCHANGED <<career_interests, location,
                   prioritize_national_strategic, cidx, admitted, careers,
                   other, samplerVars, reposVars, rankVars>>

\* lines 644-659
CareerReturn ==
    /\ cpc = "dedupe"
    /\ careers' = IF results # <<>>
                  THEN TopSix(SortDesc(BestByName(<<>>, results)))
                  ELSE results
    /\ cpc' = "done"
    /\ UNCHANGED <<career_config, career_interests, location,
                   prioritize_national_strategic, cidx, results, admitted,
                   strict, took_backfill, backfilled, other, samplerVars,
                   reposVars, rankVars>>

\* recommend_careers_by_interests_and_location called with any interests,
\* location and flag, on any of the tables
InitCareer ==
    /\ NoCall
    /\ session = EmptySession
    /\ cands = <<>>
    /\ fetched_cands = <<>>
    /\ rpc = "off"
    /\ out = <<>>
    /\ NoRankCall
    /\ career_config \in CareerTables
    /\ career_interests \in SeqsUpTo(CareerInterestChoices, MaxInterests)
    /\ location \in LocationChoices
    /\ prioritize_national_strategic \in BOOLEAN
    /\ cidx = 0
    /\ results = <<>>
    /\ admitted = <<>>
    /\ strict = <<>>
    /\ took_backfill = FALSE
    /\ backfilled = <<>>
    /\ careers = <<>>
    /\ cpc = "entry"
    /\ other = IdleFrame

NextCareer == CareerEntry \/ CareerStrict \/ CareerBackfill \/ CareerReturn

SpecCareer == InitCareer /\ [][NextCareer]_vars

---------------------------------------------------------------------------
(* Two calls of recommend_careers_by_interests_and_location running at    *)
(* once.  Each has its own arguments and locals; CAREER_CONFIG is the one *)
(* module-level list both read.  The second call runs the same lines on   *)
(* the frame `other`.                                                     *)

firstFrame == <<career_interests, location, prioritize_national_strategic,
                cidx, results, admitted, strict, took_backfill, backfilled,
                careers, cpc>>

\* lines 537-540
OtherEntry ==
    /\ other.cpc = "entry"
    /\ other' = [other EXCEPT
                     !.career_interests = StripInterests(other.career_interests),
                     !.location = NormalLocation(other.location),
                     !.cidx = 1,
                     !.cpc = "strict"]
    /\ UNCHANGED <<career_config, firstFrame, samplerVars, reposVars, rankVars>>

\* lines 542-612: one profile of the strict pass
OtherStrict ==
    /\ other.cpc = "strict"
    /\ other.cidx <= Len(career_config)
    /\ LET c == career_config[other.cidx]
           entry == StrictEntry(c, other.career_interests, other.location,
                                other.flag)
       IN other' = [other EXCEPT
                       !.results =
                           IF ~LocationExcludes(c, other.location)
                                  /\ entry.score > 0
                           THEN Append(other.results, entry)
                           ELSE other.results,
                       !.cidx = other.cidx + 1]
    /\ UNCHANGED <<career_config, firstFrame, samplerVars, reposVars, rankVars>>

\* lines 614-642: the backfill, entered or passed by
OtherBackfill ==
    /\ other.cpc = "strict"
    /\ other.cidx > Len(career_config)
    /\ IF BackfillCondition(other.results, other.career_interests)
       THEN LET backup == Backup(career_config, other.career_interests)
                added == [i \in DOMAIN backup |-> BackfillEntry(backup[i])]
            IN /\ other' = [other EXCEPT !.results = other.results \o added,
                                         !.cpc = "dedupe"]
               /\ career_config' =
                      TableAfterAppends(career_config, other.career_interests)
       ELSE /\ other' = [other EXCEPT !.cpc = "dedupe"]
            /\ UNCHANGED career_config
    /\ UNCHANGED <<firstFrame, samplerVars, reposVars, rankVars>>

\* lines 644-659
OtherReturn ==
    /\ other.cpc = "dedupe"
    /\ other' = [other EXCEPT
                     !.careers = IF other.results # <<>>
                                 THEN TopSix(SortDesc(BestByName(<<>>, other.results)))
                                 ELSE other.results,
                     !.cpc = "done"]
    /\ UNCHANGED <<career_config, firstFrame, samplerVars, reposVars, rankVars>>

\* the tables and arguments of the two calls
PairTables == {RestrictedTable, GenericTable}

PairInterests == {<<>>, <<"machine-learning">>, <<"frontend", " ">>}

PairLocations == {"", "Beijing", "Xiamen"}

\* two calls started on one table, each with any interests, location and flag
InitCareerPair ==
    /\ NoCall
    /\ session = EmptySession
    /\ cands = <<>>
    /\ fetched_cands = <<>>
    /\ rpc = "off"
    /\ out = <<>>
    /\ NoRankCall
    /\ career_config \in PairTables
    /\ career_interests \in PairInterests
    /\ location \in PairLocations
    /\ prioritize_national_strategic \in BOOLEAN
    /\ cidx = 0
    /\ results = <<>>
    /\ admitted = <<>>
    /\ strict = <<>>
    /\ took_backfill = FALSE
    /\ backfilled = <<>>
    /\ careers = <<>>
    /\ cpc = "entry"
    /\ \E ints \in PairInterests, loc \in PairLocations, flag \in BOOLEAN :
          other = [IdleFrame EXCEPT !.career_interests = ints,
                                    !.location = loc,
                                    !.flag = flag,
                                    !.cpc = "entry"]

NextCareerPair ==
    \/ CareerEntry \/ CareerStrict \/ CareerBackfill \/ CareerReturn
    \/ OtherEntry \/ OtherStrict \/ OtherBackfill \/ OtherReturn

SpecCareerPair == InitCareerPair /\ [][NextCareerPair]_vars

---------------------------------------------------------------------------
(* Properties of weighted_sample_without_replacement *)

NoRepeat(s) == \A i, j \in DOMAIN s : s[i] = s[j] => i = j

\* the call was given as many weights as items
SameLen == Len(weights0) = Len(items0)

\* the private copies exist: the call is in, or past, the loop
InLoop == poolRef # "none"

\* C1: for weights of the same length as items, the sampler returns exactly
\* min(max(k, 0), len(items)) elements and raises nothing, whichever branch
\* produced the result.
C1_OutputLength ==
    (pc = "done" /\ SameLen) =>
        /\ ~raised
        /\ resultRef # "none"
        /\ Len(heap[resultRef]) = Min(Max(k, 0), Len(items0))

\* a result of the fallback fired after a weighted draw
C1_Witness ==
    /\ pc = "done" /\ SameLen /\ ~raised
    /\ branch = "fallback" /\ lastDraw # NoDraw
    /\ Len(heap[resultRef]) = k

\* C2 as stated: at every point of the loop and after it, the selected
\* positions and the pool are disjoint and together equal the input positions.
C2_Original ==
    (InLoop) =>
        /\ Range(heap["selected"]) \cap Range(heap[poolRef]) = {}
        /\ Range(heap["selected"]) \cup Range(heap[poolRef]) = Range(items0)

\* C2 (amended): the sampler never returns a position twice and returns only
\* positions of items; selected and pool together always equal the input
\* positions, and they are disjoint through every weighted draw.  The
\* fallback copies the open slots out of the shuffled pool without removing
\* them from it: after it the overlap is exactly what the fallback took.
C2_Distinct ==
    /\ (pc = "done" /\ ~raised) =>
           /\ NoRepeat(heap[resultRef])
           /\ Range(heap[resultRef]) \subseteq Range(items0)
    /\ (InLoop) =>
           /\ NoRepeat(heap["selected"])
           /\ NoRepeat(heap[poolRef])
           /\ Range(heap["selected"]) \cup Range(heap[poolRef]) = Range(items0)
           /\ branch # "fallback" =>
                  Range(heap["selected"]) \cap Range(heap[poolRef]) = {}
           /\ branch = "fallback" =>
                  LET drawn == Len(items0) - Len(heap[poolRef])
                  IN Range(heap["selected"]) \cap Range(heap[poolRef]) =
                     Range(SubSeq(heap["selected"], drawn + 1,
                                  Len(heap["selected"])))

\* two or more positions returned, the last of them by the fallback
C2_Witness ==
    /\ pc = "done" /\ SameLen /\ ~raised
    /\ branch = "fallback" /\ lastDraw # NoDraw
    /\ Len(heap[resultRef]) >= 2
    /\ Range(heap[resultRef]) \cap Range(heap[poolRef]) # {}

\* C3 as stated: every weighted draw removes the first item, in pool order,
\* whose cumulative weight strictly exceeds the threshold r.
C3_FirstExceeding ==
    lastDraw # NoDraw =>
        lastDraw.idx =
            Minimum({i \in 1..Len(lastDraw.w) :
                        2 * Cum(lastDraw.w, i) > lastDraw.r2})

\* what the fallback appended to selected
FallbackAdded ==
    LET drawn == Len(items0) - Len(heap[poolRef])
    IN SubSeq(heap["selected"], drawn + 1, Len(heap["selected"]))

\* what the weighted draws before the fallback had selected
DrawnBefore ==
    LET drawn == Len(items0) - Len(heap[poolRef])
    IN SubSeq(heap["selected"], 1, drawn)

FallbackFills ==
    branch = "fallback" =>
        /\ ~raised
        /\ remaining = 0
        /\ Len(heap["selected"]) = k
        /\ Len(FallbackAdded) = k - Len(DrawnBefore)
        /\ NoRepeat(FallbackAdded)
        /\ Range(FallbackAdded) \subseteq Range(heap[poolRef])
        /\ Range(FallbackAdded) \cap Range(DrawnBefore) = {}

\* C4: when the remaining total weight is 0 at the start of a draw, all open
\* slots are filled from the not yet selected pool, the loop stops and
\* nothing is raised; and every call terminates.
C4_FallbackTerminates == [](FallbackFills) /\ <>(pc = "done")

\* the fallback on the very first iteration, filling two or more slots
C4_Witness ==
    /\ SameLen /\ branch = "fallback" /\ lastDraw = NoDraw
    /\ k >= 2 /\ Len(heap["selected"]) = k

\* C5: an empty items list (any weights, any k) and k <= 0 (any items, any
\* weights) give an empty list and raise nothing.
C5_EmptyInput ==
    (pc = "done" /\ (items0 = <<>> \/ k <= 0)) =>
        /\ ~raised
        /\ resultRef # "none"
        /\ heap[resultRef] = <<>>

\* k <= 0 on a non-empty list with weights of another length
C5_Witness ==
    /\ pc = "done" /\ k <= 0 /\ items0 # <<>>
    /\ Len(weights0) # Len(items0)
    /\ heap[resultRef] = <<>>

\* C6: at every step of a call and after it the caller's items and weights
\* lists hold what they held when the call started.
C6_ArgumentsUnchanged ==
    /\ heap["items"] = items0
    /\ heap["weights"] = weights0

\* a finished call whose pool was popped and then shuffled by the fallback
C6_Witness ==
    /\ pc = "done" /\ branch = "fallback" /\ lastDraw # NoDraw
    /\ heap[poolRef] # items0
    /\ heap[wRef] # weights0

---------------------------------------------------------------------------
(* Properties of recommend_random_repos *)

\* C7: every weight recommend_random_repos hands to the sampler is
\* ln(1 + stargazers_count) + 0.1 and is strictly positive, and the sampler
\* never takes its zero-total fallback in a call made by this caller.
C7_PositiveWeights ==
    rpc = "sampling" =>
        /\ Len(weights0) = Len(cands)
        /\ \A i \in DOMAIN cands :
              /\ weights0[i] = LnMilliTable[cands[i].stargazers_count + 1] + 100
              /\ weights0[i] > 0
        /\ (pc = "loop" /\ remaining > 0) => Total(heap[wRef]) > 0
        /\ branch # "fallback"

\* a zero-star repository drawn by weight from a pool of zero-star repositories
C7_Witness ==
    /\ rpc = "sampling" /\ pc = "done" /\ branch = "draw"
    /\ Len(cands) >= 2
    /\ \A i \in DOMAIN cands : cands[i].stargazers_count = 0
    /\ heap[resultRef] # <<>>
    /\ cands[heap[resultRef][1]].stargazers_count = 0

---------------------------------------------------------------------------
(* Properties of get_combined_recommendations *)

\* how often e occurs in seq
Count(e, seq) == Cardinality({j \in DOMAIN seq : seq[j] = e})

\* C8 as stated: two returned candidates whose pre-jitter scores differ by
\* more than RANDOM_TIE_BREAKER are returned in the order of those scores,
\* whatever the two jitter draws and the input order.
C8_GapKeepsOrder ==
    gpc = "done" =>
        \A i, j \in DOMAIN ranked :
            (ranked[i].pre_jitter - ranked[j].pre_jitter
                 > LiveWeights(session).RANDOM_TIE_BREAKER) => i < j

\* C9: for non-empty interests and max_items >= 0 the call returns exactly
\* min(max_items, N) of the N scored candidates, in non-increasing order of
\* the score field, and no omitted candidate has a greater score field than a
\* returned one.
C9_TopByScore ==
    (gpc = "done" /\ interests # <<>> /\ max_items >= 0) =>
        /\ Len(scored) = Len(kb_cands) + Len(session.github_repos)
        /\ Len(kb_cands) = Len(Flatten([m \in DOMAIN kb.courses |-> kb.courses[m].list]))
                               + Len(kb.practice) + Len(kb.jds) + Len(kb.advisors)
        /\ Len(ranked) = Min(max_items, Len(scored))
        /\ \A i, j \in DOMAIN ranked : i < j => ranked[i].score >= ranked[j].score
        /\ \A i \in DOMAIN ranked : Count(ranked[i], ranked) <= Count(ranked[i], scored)
        /\ \A i \in DOMAIN scored :
              Count(scored[i], ranked) < Count(scored[i], scored) =>
                  \A j \in DOMAIN ranked : scored[i].score <= ranked[j].score

\* a call that dropped a candidate and returned the others in another order
\* than it scored them
C9_Witness ==
    /\ gpc = "done" /\ interests # <<>>
    /\ Len(ranked) = 2 /\ Len(scored) > 2 /\ max_items = 2
    /\ ranked[1].score > ranked[2].score
    /\ ranked # SubSeq(scored, 1, 2)

\* the lower-cased text of a name, description or tag; None has no text
TextOf(x) == IF x = PyNone THEN <<>> ELSE Lower(x)

\* C10: the interest part of a score is the sum, over every entry of
\* interests, of INTEREST_NAME_WEIGHT if the lower-cased interest is in the
\* lower-cased name, plus INTEREST_DESC_WEIGHT if it is in the lower-cased
\* description, plus TAG_MATCH_WEIGHT if it is in one or more lower-cased
\* tags: three independent conditions, added up across the interests.
C10_InterestSum ==
    \A e \in DOMAIN scored :
        LET c == scored[e].cand
            W == LiveWeights(session)
            inName(i) == IsSubstr(Lower(interests[i]), TextOf(c.name))
            inDesc(i) == IsSubstr(Lower(interests[i]), TextOf(c.desc))
            inTag(i) == \E t \in DOMAIN c.tags :
                            /\ c.tags[t] # PyNone
                            /\ IsSubstr(Lower(interests[i]), Lower(c.tags[t]))
            names == Cardinality({i \in DOMAIN interests : inName(i)})
            descs == Cardinality({i \in DOMAIN interests : inDesc(i)})
            tags == Cardinality({i \in DOMAIN interests : inTag(i)})
        IN scored[e].interest_score =
               names * W.INTEREST_NAME_WEIGHT + descs * W.INTEREST_DESC_WEIGHT
                   + tags * W.TAG_MATCH_WEIGHT

\* a candidate hit by two interests: by one on name, description and tag at
\* once, by the other on the description alone
C10_Witness ==
    \E e \in DOMAIN scored :
        LET W == LiveWeights(session)
        IN /\ Len(interests) = 2
           /\ interests[1] # interests[2]
           /\ scored[e].interest_score =
                  W.INTEREST_NAME_WEIGHT + 2 * W.INTEREST_DESC_WEIGHT
                      + W.TAG_MATCH_WEIGHT

\* the three places an interest can match, in the order of their clauses
ClauseKinds == <<"name", "desc", "tag">>

\* interest number i matches candidate c in place number kr
Matches(c, i, kr) ==
    LET ik == Lower(interests[i])
    IN CASE kr = 1 -> IsSubstr(ik, TextOf(c.name))
         [] kr = 2 -> IsSubstr(ik, TextOf(c.desc))
         [] kr = 3 -> \E t \in DOMAIN c.tags :
                         IsSubstr(ik, Lower(Str(c.tags[t])))

---------------------------------------------------------------------------
(* Properties of the two normalizers *)

\* C12 as stated: within one call no two candidates built by the two
\* normalizers carry the same id, whatever the knowledge base and the cached
\* repository list hold.
C12_UniqueIds ==
    \A i, j \in DOMAIN all_cands :
        all_cands[i].id = all_cands[j].id => i = j

\* the raw field a candidate's description and url are read from
DescKey(type) ==
    CASE type = "course" -> "outline"
      [] type = "practice" -> "desc"
      [] type = "job" -> "jd"
      [] type = "advisor" -> "research"
      [] type = "github" -> "description"

UrlKey(type) ==
    CASE type = "advisor" -> "homepage"
      [] type = "github" -> "html_url"
      [] OTHER -> "link"

\* C13 as stated: a raw field that is absent or null leaves the empty string
\* in the candidate's name, description and url, and no name, description,
\* url or tag of a candidate is ever null.
C13_MissingDefaults ==
    \A i \in DOMAIN all_cands :
        LET c == all_cands[i]
        IN /\ (c.type \in {"course", "practice", "advisor"}
                  /\ Get(c.meta, "name", PyNone) = PyNone) => c.name = <<>>
           /\ Get(c.meta, DescKey(c.type), PyNone) = PyNone => c.desc = <<>>
           /\ Get(c.meta, UrlKey(c.type), PyNone) = PyNone => c.url = <<>>
           /\ c.name # PyNone /\ c.desc # PyNone /\ c.url # PyNone
           /\ \A t \in DOMAIN c.tags : c.tags[t] # PyNone

---------------------------------------------------------------------------
(* Properties of recommend_careers_by_interests_and_location *)

\* the location list of a profile, as the table holds it
RawLocations(c) == Get(c, "locations", <<>>)

\* a profile whose location list is non-empty and not the unrestricted
\* sentinel
Restricted(c) ==
    /\ RawLocations(c) # PyNone
    /\ RawLocations(c) # <<>>
    /\ RawLocations(c) # <<LOCATION_GLOBAL>>

C15_AtMostSix == Len(careers) <= 6

\* seven backfilled entries of seven names cut to six
C15_Witness ==
    /\ cpc = "done" /\ took_backfill
    /\ Len(careers) = 6
    /\ Cardinality({backfilled[i].career : i \in DOMAIN backfilled}) > 6

\* C16: the returned list is in non-increasing order of score, and every
\* candidate the truncation dropped has a score no greater than that of
\* every returned entry.
C16_SortedTruncated ==
    cpc = "done" =>
        /\ \A i, j \in DOMAIN careers :
               i < j => careers[i].score >= careers[j].score
        /\ \A r \in DOMAIN results :
               (\A e \in DOMAIN careers : careers[e].career # results[r].career)
                   => \A e \in DOMAIN careers :
                          results[r].score <= careers[e].score

\* a strict result of more than six names, cut to six entries of different
\* scores that were not found in that order
C16_Witness ==
    /\ cpc = "done" /\ ~took_backfill
    /\ Len(careers) = 6 /\ Len(results) > 6
    /\ careers[1].score > careers[6].score
    /\ careers # SubSeq(results, 1, 6)

\* C17: the returned list never holds two entries of one career name, and
\* the entry of a name has the highest score among the candidates of that
\* name.
C17_UniqueNames ==
    cpc = "done" =>
        /\ \A i, j \in DOMAIN careers :
               careers[i].career = careers[j].career => i = j
        /\ \A e \in DOMAIN careers : \A r \in DOMAIN results :
               results[r].career = careers[e].career
                   => results[r].score <= careers[e].score

\* a name found twice, the second time with the greater score, and returned
\* once with that score
C17_Witness ==
    /\ cpc = "done"
    /\ \E i, j \in DOMAIN results : \E e \in DOMAIN careers :
          /\ i < j
          /\ results[i].career = results[j].career
          /\ results[i].score < results[j].score
          /\ careers[e] = results[j]

\* C18: the backfill branch is entered exactly when the strict pass left no
\* candidate and the stripped interests are non-empty; a call with empty or
\* all-blank interests never yields a backfilled entry; and a result never
\* mixes entries of the strict pass with backfilled entries.
C18_BackfillIff ==
    cpc \in {"dedupe", "done"} =>
        /\ took_backfill <=> (strict = <<>> /\ career_interests # <<>>)
        /\ ~took_backfill => backfilled = <<>>
        /\ career_interests = <<>> =>
               /\ backfilled = <<>>
               /\ \A e \in DOMAIN careers : careers[e] \in Range(strict)
        /\ \/ \A e \in DOMAIN careers : careers[e] \in Range(strict)
           \/ \A e \in DOMAIN careers :
                  careers[e] \in Range(backfilled) /\ strict = <<>>

\* a call whose interests, once stripped, matched nothing and that returned
\* backfilled entries only
C18_Witness ==
    /\ cpc = "done" /\ took_backfill
    /\ career_interests # <<>> /\ strict = <<>>
    /\ Len(careers) >= 2
    /\ \A e \in DOMAIN careers : careers[e] \in Range(backfilled)

\* C19: every backfilled entry has score 0.5 and the fixed fallback reason,
\* no entry of the strict pass has that reason, and so in every returned
\* list the reason tells the backfilled entries from the strict ones.
C19_BackfillMarked ==
    /\ \A b \in DOMAIN backfilled :
           /\ backfilled[b].score = 1
           /\ backfilled[b].match_reason = FallbackReason
    /\ \A r \in DOMAIN strict : strict[r].match_reason # FallbackReason
    /\ \A e \in DOMAIN careers :
           /\ careers[e].match_reason = FallbackReason
                  <=> careers[e] \in Range(backfilled)
           /\ careers[e].match_reason # FallbackReason
                  <=> careers[e] \in Range(strict)

\* a returned strict match whose score of 0.5 is the location bonus alone
C19_Witness ==
    /\ cpc = "done" /\ ~took_backfill
    /\ \E e \in DOMAIN careers :
          /\ careers[e].score = 1
          /\ careers[e] \in Range(strict)
          /\ careers[e].match_reason[1] = [clause |-> "generic"]

\* C20 as stated: on every non-empty table the call returns one or more
\* entries, for every interests list, location and strategic flag.
C20_NeverEmpty ==
    (cpc = "done" /\ career_config # <<>>) => careers # <<>>

\* the tags of a profile, none when the key is missing or null
TagSet(c) ==
    IF Get(c, "tags", <<>>) = PyNone THEN {} ELSE Range(Get(c, "tags", <<>>))

\* the profiles the strict pass has been through
Processed ==
    CASE cpc = "strict" -> 1..(cidx - 1)
      [] cpc \in {"dedupe", "done"} -> DOMAIN career_config
      [] OTHER -> {}

\* the entry the strict pass made for profile p, if any
StrictEntriesOf(p) == {results[a] : a \in {b \in DOMAIN admitted : admitted[b] = p}}

\* C21: with the strategic flag set, an unrestricted requested location and
\* non-empty interests, every strategic profile sharing no tag with the
\* interests is a candidate of the strict pass with score exactly 2.0, and
\* every non-strategic profile sharing no tag is not a candidate.
C21_StrategicSurfaces ==
    (cpc = "strict" /\ prioritize_national_strategic
        /\ location = LOCATION_GLOBAL /\ career_interests # <<>>) =>
        \A p \in Processed :
            LET c == career_config[p]
            IN TagSet(c) \cap Range(career_interests) = {} =>
                   IF Get(c, "national_strategic", FALSE)
                   THEN /\ StrictEntriesOf(p) # {}
                        /\ \A e \in StrictEntriesOf(p) : e.score = 4
                   ELSE StrictEntriesOf(p) = {}

\* the strict pass over, with a strategic and a non-strategic profile that
\* share no tag with the interests
C21_Witness ==
    /\ cpc = "strict" /\ cidx > Len(career_config)
    /\ prioritize_national_strategic
    /\ location = LOCATION_GLOBAL /\ career_interests # <<>>
    /\ \E p, q \in DOMAIN career_config :
          /\ TagSet(career_config[p]) \cap Range(career_interests) = {}
          /\ TagSet(career_config[q]) \cap Range(career_interests) = {}
          /\ Get(career_config[p], "national_strategic", FALSE)
          /\ ~Get(career_config[q], "national_strategic", FALSE)
          /\ p \in Range(admitted) /\ q \notin Range(admitted)

\* the score (in halves) and the place of a career in the returned list
ScoresOf(name) == {careers[e].score : e \in {f \in DOMAIN careers : careers[f].career = name}}

PlacesOf(name) == {e \in DOMAIN careers : careers[e].career = name}

\* C22: interests [machine learning, algorithms], location nationwide and no
\* strategic priority over the shipped table: the algorithm engineer and the
\* machine-learning engineer score exactly 2 and are the first two entries,
\* every profile with one shared tag (the data analyst among them) scores
\* exactly 1 and comes after them, and the profiles without a shared tag
\* (the frontend engineer among them) are absent.
C22_Scenario ==
    (cpc = "done" /\ career_config = CAREER_CONFIG
        /\ career_interests = <<"machine-learning", "algorithms">>
        /\ location = LOCATION_GLOBAL /\ ~prioritize_national_strategic) =>
        /\ {careers[1].career, careers[2].career} =
               {"algorithm-engineer", "ml-engineer"}
        /\ careers[1].score = 4 /\ careers[2].score = 4
        /\ ScoresOf("data-analyst") = {2}
        /\ PlacesOf("frontend-engineer") = {}
        /\ \A p \in DOMAIN CAREER_CONFIG :
               LET c == CAREER_CONFIG[p]
                   shared == Cardinality(TagSet(c) \cap Range(career_interests))
               IN /\ shared = 1 =>
                         /\ ScoresOf(c.career) = {2}
                         /\ \A e \in PlacesOf(c.career) : e > 2
                  /\ shared = 0 => PlacesOf(c.career) = {}

\* the scenario run to its end, six entries returned
C22_Witness ==
    /\ cpc = "done" /\ career_config = CAREER_CONFIG
    /\ career_interests = <<"machine-learning", "algorithms">>
    /\ location = LOCATION_GLOBAL /\ ~prioritize_national_strategic
    /\ Len(careers) = 6
    /\ careers[3].career = "data-analyst"

\* the strict score of a profile, in halves, as the three parts add up
ExpectedScore(c) ==
    LET shared == Cardinality(TagSet(c) \cap Range(career_interests))
        base == IF career_interests = <<>> THEN 1 ELSE shared
        local == /\ Restricted(c)
                 /\ location # LOCATION_GLOBAL
                 /\ location \in Range(RawLocations(c))
        strategic == /\ prioritize_national_strategic
                     /\ Get(c, "national_strategic", FALSE)
    IN 2 * base + (IF local THEN 1 ELSE 0) + (IF strategic THEN 4 ELSE 0)

\* the location filter let the profile through
Unfiltered(c) ==
    ~(Restricted(c) /\ location # LOCATION_GLOBAL
          /\ location \notin Range(RawLocations(c)))

Cascade ==
    LET adjacent ==
            IF {"machine-learning", "algorithms"} \cap Range(career_interests) # {}
            THEN SelectSeq(career_config, LAMBDA c :
                     TagSet(c) \cap {"machine-learning", "algorithms",
                                     "data-analysis"} # {})
            ELSE <<>>
        generic ==
            SelectSeq(career_config, LAMBDA c :
                Get(c, "career", NoCareer)
                    \in {"backend-engineer", "frontend-engineer"})
    IN IF adjacent # <<>> THEN adjacent
       ELSE IF generic # <<>> THEN generic
       ELSE career_config

\* C25: the backfill is an ordered cascade: the profiles of an adjacent tag
\* when the interests hold machine learning or algorithms; when that gives
\* nothing, the two generic careers; the whole table only when those two are
\* absent from it as well.
C25_Cascade ==
    (cpc \in {"dedupe", "done"} /\ took_backfill) =>
        backfilled = [i \in DOMAIN Cascade |-> BackfillEntry(Cascade[i])]

\* C27: for a requested location other than the sentinel, every entry of the
\* returned list, of the strict pass or of the backfill, belongs to a
\* profile that is unrestricted or lists the requested location.
C27_ReturnedLocations ==
    (cpc = "done" /\ location # LOCATION_GLOBAL) =>
        \A e \in DOMAIN careers :
            \E p \in DOMAIN career_config :
                /\ Get(career_config[p], "career", NoCareer) = careers[e].career
                /\ Unfiltered(career_config[p])

\* what a call returns when it runs alone on the table
CareersAlone(table, rawInterests, rawLocation, flag) ==
    LET ints == StripInterests(rawInterests)
        loc == NormalLocation(rawLocation)
        kept == SelectSeq(table, LAMBDA c :
                    /\ ~LocationExcludes(c, loc)
                    /\ StrictEntry(c, ints, loc, flag).score > 0)
        first == [i \in DOMAIN kept |-> StrictEntry(kept[i], ints, loc, flag)]
        backup == Backup(table, ints)
        all == IF BackfillCondition(first, ints)
               THEN first \o [i \in DOMAIN backup |-> BackfillEntry(backup[i])]
               ELSE first
    IN IF all # <<>> THEN TopSix(SortDesc(BestByName(<<>>, all))) ELSE all

\* C23: a call changes no shared state: no step of either call changes
\* CAREER_CONFIG (the backfill that takes the whole table included), and
\* under every interleaving of two calls each caller is returned what it
\* would be returned when its call runs alone.
C23_Reentrant ==
    /\ [][career_config' = career_config]_vars
    /\ [](cpc = "done" =>
              careers = CareersAlone(career_config, career_interests, location,
                                     prioritize_national_strategic))
    /\ [](other.cpc = "done" =>
              other.careers = CareersAlone(career_config, other.career_interests,
                                           other.location, other.flag))

\* one call returned after a backfill over the whole table, the other call
\* part-way through its strict pass with an entry made
C23_Witness ==
    /\ cpc = "done"
    /\ took_backfill
    /\ Picked(career_config, career_interests) = <<>>
    /\ Len(careers) = Len(career_config)
    /\ other.cpc = "strict"
    /\ other.cidx \in 2..Len(career_config)
    /\ other.results # <<>>

\* what the source of a scored candidate added to its score, in thousandths
SourcePart(e) == e.pre_jitter - e.interest_score

\* factor * ln(1 + stars) of a GitHub candidate, in thousandths
StarProduct(c, W) ==
    (Log1pMilli(Get(c, "stars", 0)) * W.GITHUB_STAR_WEIGHT_FACTOR) \div 1000

\* C26: a GitHub candidate gets min(factor * ln(1 + stars), max bonus) for
\* its stars, never more than the max bonus (besides the GitHub source
\* bonus); a knowledge-base candidate gets the base score and the
\* knowledge-base bonus plus min(8, heat / 10) for a numeric heat, and no
\* star bonus.
C26_StarBonusCapped ==
    \A s \in DOMAIN scored :
        LET e == scored[s]
            c == e.cand
            W == LiveWeights(session)
        IN IF c.source = "GitHub"
           THEN /\ SourcePart(e) - W.SOURCE_GITHUB_BONUS
                      = Min(StarProduct(c, W), W.GITHUB_STAR_MAX_BONUS)
                /\ SourcePart(e) - W.SOURCE_GITHUB_BONUS
                      <= W.GITHUB_STAR_MAX_BONUS
           ELSE SourcePart(e) =
                    W.KB_BASE_SCORE + W.SOURCE_KB_BONUS
                    + (IF "heat" \in DOMAIN c.meta /\ c.meta.heat # 0
                       THEN Min(8000, c.meta.heat * 100) ELSE 0)

\* a GitHub candidate whose stars give more than the max bonus and a
\* knowledge-base candidate whose heat gives more than 8, both scored
C26_Witness ==
    \E s, t \in DOMAIN scored :
        /\ scored[s].cand.source = "GitHub"
        /\ StarProduct(scored[s].cand, LiveWeights(session))
               > LiveWeights(session).GITHUB_STAR_MAX_BONUS
        /\ scored[t].cand.source # "GitHub"
        /\ "heat" \in DOMAIN scored[t].cand.meta
        /\ scored[t].cand.meta.heat > 80

\* the clause of one kind for interest number i is in the match_reason of e
HasClause(e, kind, i) == <<kind, interests[i]>> \in Range(e.match_reason.parts)

\* C28: for every candidate and every interest, match_reason holds a name,
\* description or tag clause for the interest exactly when the scorer added
\* the weight of that kind for it, candidates with a null or empty tag and
\* a null name or description included.
C28_ReasonAgreesWithScore ==
    \A s \in DOMAIN scored :
        \A i \in DOMAIN interests :
            /\ HasClause(scored[s], "name", i) <=> scored[s].score_hits[i].name
            /\ HasClause(scored[s], "desc", i) <=> scored[s].score_hits[i].desc
            /\ HasClause(scored[s], "tag", i) <=> scored[s].score_hits[i].tag

\* C29: every candidate of one call is scored under one weight
\* configuration: also when a writer of the session state changes a weight
\* while the call walks the candidates, no two candidates of the call are
\* scored with different values of one weight.
C29_OneWeightConfiguration ==
    \A s, t \in DOMAIN scored :
        \A key \in DOMAIN DEFAULT_WEIGHTS :
            scored[s].weights[key] = scored[t].weights[key]

====
